---- MODULE Spec2Model ----
(***************************************************************************)
(* SirsiNexus core-engine: the agent registry (agent/manager.rs), the gRPC *)
(* facade over it (agent/service.rs) and the ContextStore the facade calls *)
(* (agent/context.rs, which is not part of the source tree: its contract   *)
(* is taken from section 4.2 of the specification).                        *)
(*                                                                         *)
(* Spec          the server: only the RPC handlers run, over the manager   *)
(*               built by AgentManager::new() and an empty ContextStore.   *)
(* SpecRegistry  direct calls of the manager's public operations on        *)
(*               sessions inserted the way test_agent_lifecycle (in        *)
(*               manager.rs) inserts them, interleaved with StopSession.   *)
(***************************************************************************)
EXTENDS Integers, Sequences, FiniteSets, TLC

\* ---------------------------------------------------------------- bounds
\* Number of identifiers Uuid::new_v4() / the ContextStore can hand out.
MaxUuid == 3

\* Session names a test inserts directly into AgentManager.sessions.
TestSessionIds == {101, 102}

\* Number of distinct session ids StopSession gets called with.
MaxStopped == 1

\* At most this many requests are submitted by concurrent callers whose
\* requests are counted.
MaxSends == 2

\* At most this many conversation entries are kept per agent.
MaxHistory == 2

\* The k-th request submitted carries the k-th message.
MessageSeq == <<"list ec2", "hi", "status", "help">>

\* The session the harness inserts, as test_agent_lifecycle does.
HarnessSession == 101

Users == {"u1"}
Messages == {"list ec2", "hi"}

\* AgentType enum values a SpawnSubAgentRequest carries (2 = AWS,
\* 11 = a value outside the enum).
AgentTypeInputs == {2, 11}

\* agent_type strings handed to AgentManager::spawn_agent directly.
AgentTypeStrings == {"aws", "test"}

\* SuggestionType enum values a GetSuggestionsRequest carries.
SuggestionTypeInputs == {1, 3}

\* ----------------------------------------------------------------- state
VARIABLES
    sessions,     \* AgentManager.sessions : session_id -> SessionState
    agents,       \* AgentManager.agents   : agent_id -> AgentState
    ctxSessions,  \* ContextStore: session_id -> session context
    ctxAgents,    \* ContextStore: agent_id -> agent context
    ctxHistory,   \* ContextStore: agent_id -> sequence of conversation entries
    nextUuid,     \* next fresh identifier
    spawnedIn,    \* history: agent_id -> session_id given to the spawn_agent that made it
    stopped,      \* history: session ids a StopSession response reported "stopped"
    last,         \* the response the most recent call returned to its caller
    lock,         \* AgentService.manager: the tokio RwLock around the AgentManager
    calls,        \* the handler each concurrent caller is in, and where in it
    sent          \* number of counted requests submitted by concurrent callers

vars == <<sessions, agents, ctxSessions, ctxAgents, ctxHistory, nextUuid,
          spawnedIn, stopped, last, lock, calls, sent>>

\* Session identifiers a caller puts into a request: one that an earlier call
\* returned (or a test inserted), or 0, an identifier nothing ever returned
\* ("bogus-session").
ReqIds == (DOMAIN sessions) \cup (DOMAIN ctxSessions) \cup {0}

\* Agent identifiers a caller puts into a request: a returned one, or 0.
AgentReqIds == (DOMAIN agents) \cup (DOMAIN ctxAgents) \cup {0}

Range(s) == {s[i] : i \in 1..Len(s)}

\* A function extended (or overwritten) at one key: HashMap::insert.
Insert(f, k, v) == [x \in (DOMAIN f) \cup {k} |-> IF x = k THEN v ELSE f[x]]

\* ------------------------------------------------------ concurrent callers
\* Callers that run handlers concurrently: two send messages, one spawns.
Senders == {1, 2}
Spawners == {3}
Procs == Senders \cup Spawners

\* The caller that resolves a (session, agent) pair check by check.
Resolvers == {1}

\* A caller that is in no handler.
IdleCall ==
    [op |-> "none", pc |-> "idle", session_id |-> 0, agent_id |-> 0,
     message |-> "", agent_type |-> 0]

\* RwLock::new(AgentManager::new()): nobody holds it, nobody waits for it.
FreeLock == [readers |-> {}, writer |-> {}, queue |-> <<>>]

\* ------------------------------------------------------------- responses
\* What a caller gets back.  code is the AppError kind for a manager call
\* and the tonic Status code for an RPC; "Ok" for success.
NoResponse ==
    [op |-> "none", session_id |-> 0, agent_id |-> 0, code |-> "Ok",
     status |-> "", ret_session |-> {}, ret_agent |-> {}, message_id |-> "",
     response |-> <<>>, suggestions |-> <<>>, agent_type |-> "",
     agent_status |-> 0, capabilities |-> <<>>, repeat |-> FALSE,
     events |-> <<>>, stream_closed |-> FALSE]

Request(op, session_id, agent_id) ==
    [NoResponse EXCEPT !.op = op, !.session_id = session_id, !.agent_id = agent_id]

\* ---------------------------------------------------- agent/manager.rs
\* AgentManager::list_available_agents
list_available_agents ==
    {"aws", "azure", "gcp", "vsphere", "migration", "reporting",
     "security", "scripting", "tutorial"}

\* AgentState built by spawn_agent
new_agent_state_busy(agent_type) ==
    [agent_type |-> agent_type,
     status |-> "busy",
     capabilities |-> <<"chat", "suggest", <<agent_type, "_specific">>>>]

new_agent_state(agent_type) ==
    [agent_type |-> agent_type,
     status |-> "running",
     capabilities |-> <<"chat", "suggest", <<agent_type, "_specific">>>>]

\* spawn_agent: session.agent_ids.push(agent_id)
push_agent_id_lost(sess, session_id, agent_id) == sess

push_agent_id(sess, session_id, agent_id) ==
    [sess EXCEPT ![session_id].agent_ids = Append(@, agent_id)]

\* AgentManager::verify_session_and_agent: the error kind, or "Ok"
verify_session_and_agent(session_id, agent_id) ==
    IF session_id \notin DOMAIN sessions THEN "NotFound"
    ELSE IF agent_id \notin Range(sessions[session_id].agent_ids) THEN "NotFound"
    ELSE IF agent_id \notin DOMAIN agents THEN "NotFound"
    ELSE "Ok"

\* send_message: Uuid::new_v4().to_string() for the message id, a non-empty
\* string whose value nothing else in the program refers to
new_message_id == "uuid-v4"

\* send_message: format!("Received message: {}", message)
format_response(message) == <<"Received message: ", message>>

\* send_message: the one sample suggestion
sample_suggestions_none == <<>>

sample_suggestions ==
    <<[title |-> <<"Sample suggestion">>, action_type |-> "command", confidence10 |-> 9]>>

\* get_suggestions: the one contextual suggestion
contextual_suggestions(context_type) ==
    <<[title |-> <<"Suggestion for ", context_type>>, action_type |-> "command",
       confidence10 |-> 8]>>

\* tests::test_agent_lifecycle: manager.sessions.insert(session_id, SessionState{..})
InsertSession ==
    \E session_id \in TestSessionIds, user \in Users :
        /\ session_id \notin DOMAIN sessions
        /\ sessions' = Insert(sessions, session_id,
                              [user_id |-> user, agent_ids |-> <<>>])
        /\ last' = Request("insert_session", session_id, 0)
        /\ UNCHANGED <<lock, calls, sent, agents, ctxSessions, ctxAgents, ctxHistory, nextUuid,
                       spawnedIn, stopped>>

\* spawn_agent: the session lookup (ok_or_else(..)?) comes before the
\* AgentState is built and inserted, so a NotFound leaves the agents map alone
spawn_agent_not_found_inserted(ags, agent_id, agent_type) ==
    Insert(ags, agent_id, new_agent_state(agent_type))

spawn_agent_not_found(ags, agent_id, agent_type) == ags

\* AgentManager::spawn_agent
spawn_agent ==
    \E session_id \in ReqIds, agent_type \in AgentTypeStrings :
        IF session_id \notin DOMAIN sessions
        THEN /\ last' = [Request("spawn_agent", session_id, 0) EXCEPT
                            !.code = "NotFound", !.agent_type = agent_type]
             /\ agents' = spawn_agent_not_found(agents, nextUuid, agent_type)
             /\ UNCHANGED <<lock, calls, sent, sessions, ctxSessions, ctxAgents, ctxHistory,
                            nextUuid, spawnedIn, stopped>>
        ELSE /\ nextUuid <= MaxUuid
             /\ LET agent_id == nextUuid IN
                /\ sessions' = push_agent_id(sessions, session_id, agent_id)
                /\ agents' = Insert(agents, agent_id, new_agent_state(agent_type))
                /\ spawnedIn' = Insert(spawnedIn, agent_id, session_id)
                /\ last' = [Request("spawn_agent", session_id, 0) EXCEPT
                               !.ret_agent = {agent_id}, !.agent_type = agent_type]
             /\ nextUuid' = nextUuid + 1
             /\ UNCHANGED <<lock, calls, sent, ctxSessions, ctxAgents, ctxHistory, stopped>>

\* send_message(&self, ..): the call reads the maps and writes to none of
\* them, whether it returns a response or an error
send_message_agents_error(ags, agent_id) ==
    [a \in DOMAIN ags |-> [ags[a] EXCEPT !.status = "error"]]

send_message_agents(ags, agent_id) == ags

\* AgentManager::send_message
send_message ==
    \E session_id \in ReqIds, agent_id \in AgentReqIds :
        LET kind == verify_session_and_agent(session_id, agent_id) IN
        IF kind # "Ok"
        THEN /\ last' = [Request("send_message", session_id, agent_id) EXCEPT
                            !.code = kind]
             /\ agents' = send_message_agents(agents, agent_id)
             /\ UNCHANGED <<lock, calls, sent, sessions, ctxSessions, ctxAgents, ctxHistory,
                            nextUuid, spawnedIn, stopped>>
        ELSE /\ \E message \in Messages :
                    last' = [Request("send_message", session_id, agent_id) EXCEPT
                                !.message_id = new_message_id,
                                !.response = format_response(message),
                                !.suggestions = sample_suggestions]
             /\ agents' = send_message_agents(agents, agent_id)
             /\ UNCHANGED <<lock, calls, sent, sessions, ctxSessions, ctxAgents, ctxHistory,
                            nextUuid, spawnedIn, stopped>>

\* get_suggestions(&self, ..): the agent is looked up and left as it is
get_suggestions_agents_busy(ags, agent_id) ==
    [a \in DOMAIN ags |->
        IF a = agent_id THEN [ags[a] EXCEPT !.status = "busy"] ELSE ags[a]]

get_suggestions_agents(ags, agent_id) == ags

\* AgentManager::get_suggestions
get_suggestions ==
    \E session_id \in ReqIds, agent_id \in AgentReqIds, context_type \in {"test"} :
        LET kind == verify_session_and_agent(session_id, agent_id) IN
        /\ last' = IF kind # "Ok"
                   THEN [Request("get_suggestions", session_id, agent_id) EXCEPT
                            !.code = kind]
                   ELSE [Request("get_suggestions", session_id, agent_id) EXCEPT
                            !.suggestions = contextual_suggestions(context_type)]
        /\ agents' = get_suggestions_agents(agents, agent_id)
        /\ UNCHANGED <<lock, calls, sent, sessions, ctxSessions, ctxAgents, ctxHistory,
                       nextUuid, spawnedIn, stopped>>

\* AgentManager::get_agent_status
get_agent_status ==
    \E session_id \in ReqIds, agent_id \in AgentReqIds :
        LET kind == verify_session_and_agent(session_id, agent_id) IN
        /\ last' = IF kind # "Ok"
                   THEN [Request("get_agent_status", session_id, agent_id) EXCEPT
                            !.code = kind]
                   ELSE [Request("get_agent_status", session_id, agent_id) EXCEPT
                            !.status = agents[agent_id].status,
                            !.capabilities = agents[agent_id].capabilities]
        /\ UNCHANGED <<lock, calls, sent, sessions, agents, ctxSessions, ctxAgents, ctxHistory,
                       nextUuid, spawnedIn, stopped>>

\* -------------------------------------------- agent/context.rs (contract)
\* ContextStore::create_session_context: the context it stores
new_session_context(user) == [user_id |-> user]

\* ContextStore::create_agent_context: NotFound without a session context
create_agent_context_kind(session_id) ==
    IF session_id \in DOMAIN ctxSessions THEN "Ok" ELSE "NotFound"

\* Statuses a freshly created agent context may carry
InitialAgentStatuses == {"initializing", "ready"}

\* ContextStore::create_agent_context: the context it stores
new_agent_context(session_id, agent_type, status) ==
    [session_id |-> session_id, agent_type |-> agent_type, status |-> status]

\* ContextStore::add_conversation_entry: append-only, per agent
add_conversation_entry(hist, agent_id, request, response, suggestions) ==
    Insert(hist, agent_id,
           Append(IF agent_id \in DOMAIN hist THEN hist[agent_id] ELSE <<>>,
                  [agent_id |-> agent_id, request |-> request,
                   response |-> response, suggestions |-> suggestions]))

\* Number of conversation entries the store holds for an agent
history_len(hist, agent_id) ==
    IF agent_id \in DOMAIN hist THEN Len(hist[agent_id]) ELSE 0

\* ContextStore::get_agent_context: NotFound without an agent context
get_agent_context_kind(agent_id) ==
    IF agent_id \in DOMAIN ctxAgents THEN "Ok" ELSE "NotFound"

\* ---------------------------------------------------- agent/service.rs
status_internal_ok(kind) == "Ok"

\* .map_err(|e| Status::internal(e.to_string())): every error kind leaves the
\* facade as tonic's Internal code
status_internal(kind) == "Internal"

\* spawn_sub_agent: AgentType enum -> string for the manager / the store
agent_type_str(agent_type) ==
    CASE agent_type = 2 -> "aws"
      [] agent_type = 3 -> "azure"
      [] agent_type = 4 -> "gcp"
      [] agent_type = 5 -> "vsphere"
      [] agent_type = 6 -> "migration"
      [] agent_type = 7 -> "security"
      [] agent_type = 8 -> "reporting"
      [] agent_type = 9 -> "scripting"
      [] agent_type = 10 -> "tutorial"
      [] OTHER -> "general"

\* get_suggestions: SuggestionType enum -> context string
suggestion_context_type(suggestion_type) ==
    CASE suggestion_type = 1 -> "action"
      [] suggestion_type = 2 -> "optimization"
      [] suggestion_type = 3 -> "security"
      [] suggestion_type = 4 -> "code"
      [] suggestion_type = 5 -> "tutorial"
      [] suggestion_type = 6 -> "troubleshooting"
      [] OTHER -> "general"

\* get_sub_agent_status: status string -> AgentStatus enum
agent_status_enum(status) ==
    CASE status = "initializing" -> 1
      [] status = "ready" -> 2
      [] status = "busy" -> 3
      [] status = "error" -> 4
      [] status = "stopped" -> 5
      [] OTHER -> 2

\* start_session: StartSessionResponse { session_id: context.session_id,
\* status: "active", .. }
start_session_response_stale(session_id) ==
    [Request("StartSession", 0, 0) EXCEPT
        !.ret_session = {1}, !.status = "active"]

start_session_response(session_id) ==
    [Request("StartSession", 0, 0) EXCEPT
        !.ret_session = {session_id}, !.status = "active"]

\* Identifiers that spawn_sub_agent calls already under way will draw when
\* their store call completes (MaxUuid counts them in, so that no call under
\* way is left without one).
PendingAgentIds ==
    Cardinality({p \in Spawners :
                    /\ calls[p].op = "SpawnSubAgent"
                    /\ create_agent_context_kind(calls[p].session_id) = "Ok"})

\* AgentService::start_session
StartSession ==
    \E user \in Users :
        /\ nextUuid + PendingAgentIds <= MaxUuid
        /\ LET session_id == nextUuid IN
           /\ ctxSessions' = Insert(ctxSessions, session_id, new_session_context(user))
           /\ last' = start_session_response(session_id)
        /\ nextUuid' = nextUuid + 1
        /\ UNCHANGED <<lock, calls, sent, sessions, agents, ctxAgents, ctxHistory, spawnedIn, stopped>>

\* AgentService::spawn_sub_agent
SpawnSubAgent ==
    \E session_id \in ReqIds, agent_type \in AgentTypeInputs :
        LET agent_type_s == agent_type_str(agent_type)
            kind == create_agent_context_kind(session_id) IN
        IF kind # "Ok"
        THEN /\ last' = [Request("SpawnSubAgent", session_id, 0) EXCEPT
                            !.code = status_internal(kind),
                            !.agent_type = agent_type_s]
             /\ UNCHANGED <<lock, calls, sent, sessions, agents, ctxSessions, ctxAgents, ctxHistory,
                            nextUuid, spawnedIn, stopped>>
        ELSE /\ nextUuid <= MaxUuid
             /\ \E status \in InitialAgentStatuses :
                    ctxAgents' = Insert(ctxAgents, nextUuid,
                                        new_agent_context(session_id, agent_type_s, status))
             /\ last' = [Request("SpawnSubAgent", session_id, 0) EXCEPT
                            !.ret_agent = {nextUuid}, !.status = "running",
                            !.agent_type = agent_type_s]
             /\ nextUuid' = nextUuid + 1
             /\ UNCHANGED <<lock, calls, sent, sessions, agents, ctxSessions, ctxHistory, spawnedIn,
                            stopped>>

\* AgentService::send_message
SendMessage ==
    \E session_id \in ReqIds, agent_id \in AgentReqIds :
        LET kind == verify_session_and_agent(session_id, agent_id) IN
        IF kind # "Ok"
        THEN /\ last' = [Request("SendMessage", session_id, agent_id) EXCEPT
                            !.code = status_internal(kind)]
             /\ UNCHANGED <<lock, calls, sent, sessions, agents, ctxSessions, ctxAgents, ctxHistory,
                            nextUuid, spawnedIn, stopped>>
        ELSE /\ history_len(ctxHistory, agent_id) < MaxHistory
             /\ \E message \in Messages :
                    /\ ctxHistory' = add_conversation_entry(
                                         ctxHistory, agent_id, message,
                                         format_response(message), <<>>)
                    /\ last' = [Request("SendMessage", session_id, agent_id) EXCEPT
                                    !.message_id = new_message_id,
                                    !.response = format_response(message),
                                    !.suggestions = sample_suggestions]
             /\ UNCHANGED <<lock, calls, sent, sessions, agents, ctxSessions, ctxAgents, nextUuid,
                            spawnedIn, stopped>>

\* AgentService::get_suggestions
GetSuggestions ==
    \E session_id \in ReqIds, agent_id \in AgentReqIds :
        LET kind == verify_session_and_agent(session_id, agent_id) IN
        /\ IF kind # "Ok"
           THEN last' = [Request("GetSuggestions", session_id, agent_id) EXCEPT
                            !.code = status_internal(kind)]
           ELSE \E suggestion_type \in SuggestionTypeInputs :
                    last' = [Request("GetSuggestions", session_id, agent_id) EXCEPT
                                !.suggestions = contextual_suggestions(
                                    suggestion_context_type(suggestion_type))]
        /\ agents' = get_suggestions_agents(agents, agent_id)
        /\ UNCHANGED <<lock, calls, sent, sessions, ctxSessions, ctxAgents, ctxHistory,
                       nextUuid, spawnedIn, stopped>>

\* AgentService::get_sub_agent_status
GetSubAgentStatus ==
    \E session_id \in ReqIds, agent_id \in AgentReqIds :
        LET kind == get_agent_context_kind(agent_id) IN
        /\ last' = IF kind # "Ok"
                   THEN [Request("GetSubAgentStatus", session_id, agent_id) EXCEPT
                            !.code = status_internal(kind)]
                   ELSE [Request("GetSubAgentStatus", session_id, agent_id) EXCEPT
                            !.ret_agent = {agent_id},
                            !.agent_type = "general",
                            !.agent_status = agent_status_enum(ctxAgents[agent_id].status)]
        /\ UNCHANGED <<lock, calls, sent, sessions, agents, ctxSessions, ctxAgents, ctxHistory,
                       nextUuid, spawnedIn, stopped>>

\* stop_session: the response, built without looking at the request
stop_session_response_strict(req) ==
    IF req.session_id \in DOMAIN ctxSessions
    THEN [req EXCEPT !.status = "stopped"]
    ELSE [req EXCEPT !.code = "Internal"]

stop_session_response(req) == [req EXCEPT !.status = "stopped"]

\* stop_session: "TODO: Implement session cleanup in manager" - the agent
\* contexts are left as they are
stop_session_cleanup_one(ctx_agents, session_id) ==
    LET live == {a \in DOMAIN ctx_agents :
                    /\ ctx_agents[a].session_id = session_id
                    /\ ctx_agents[a].status # "stopped"} IN
    IF live = {} THEN ctx_agents
    ELSE LET a == CHOOSE x \in live : \A y \in live : x <= y IN
         [ctx_agents EXCEPT ![a].status = "stopped"]

stop_session_cleanup(ctx_agents, session_id) == ctx_agents

\* AgentService::stop_session
StopSession ==
    \E session_id \in ReqIds :
        /\ Cardinality(stopped \cup {session_id}) <= MaxStopped
        /\ LET resp == stop_session_response(
                           [Request("StopSession", session_id, 0) EXCEPT
                               !.repeat = (session_id \in stopped)]) IN
           /\ last' = resp
           /\ stopped' = IF resp.status = "stopped"
                         THEN stopped \cup {session_id} ELSE stopped
        /\ ctxAgents' = stop_session_cleanup(ctxAgents, session_id)
        /\ UNCHANGED <<lock, calls, sent, sessions, agents, ctxSessions, ctxHistory, nextUuid,
                       spawnedIn>>

\* stream_events: tokio_stream::empty(), a stream that yields no item and is
\* exhausted from the start
stream_events_pending == [events |-> <<>>, closed |-> FALSE]

stream_events_stream == [events |-> <<>>, closed |-> TRUE]

\* stream_events: the handler never asks for the manager's lock
stream_events_lock_held(l) == [l EXCEPT !.readers = @ \cup {0}]

stream_events_lock(l) == l

\* AgentService::stream_events
StreamEvents ==
    \E session_id \in ReqIds :
        /\ last' = [Request("StreamEvents", session_id, 0) EXCEPT
                       !.events = stream_events_stream.events,
                       !.stream_closed = stream_events_stream.closed]
        /\ lock' = stream_events_lock(lock)
        /\ UNCHANGED <<calls, sent, sessions, agents, ctxSessions, ctxAgents, ctxHistory,
                       nextUuid, spawnedIn, stopped>>

\* ------------------------------------- agent/service.rs, await by await
\* tokio::sync::RwLock (service.rs:2, :15): any number of readers or one
\* writer; tasks that cannot get the lock wait in a first-in first-out queue,
\* and while a task waits nobody behind it is let in (the lock is fair, so a
\* waiting writer holds back later readers).
LockMode(op) ==
    IF op \in {"SpawnSubAgent", "spawn_agent"} THEN "write" ELSE "read"

\* self.manager.read() / self.manager.write(): the request joins the queue
enqueue(l, p) == [l EXCEPT !.queue = Append(@, p)]

\* .await on the lock future resolves
CanAcquire_shared(l, p, mode) ==
    /\ l.queue # << >>
    /\ Head(l.queue) = p

CanAcquire(l, p, mode) ==
    /\ l.queue # << >>
    /\ Head(l.queue) = p
    /\ l.writer = {}
    /\ (mode = "write") => (l.readers = {})

acquire(l, p, mode) ==
    [l EXCEPT !.queue = Tail(@),
              !.readers = IF mode = "read" THEN @ \cup {p} ELSE @,
              !.writer = IF mode = "write" THEN {p} ELSE @]

\* the guard is dropped when the handler returns
release_leaked(l, p) == [l EXCEPT !.readers = @ \ {p}]

release(l, p) == [l EXCEPT !.readers = @ \ {p}, !.writer = @ \ {p}]

\* send_message, up to self.manager.read(): the request has been submitted
SendMessageBegin ==
    \E p \in Senders, session_id \in ReqIds, agent_id \in AgentReqIds :
        /\ calls[p].pc = "idle"
        /\ sent < MaxSends
        /\ sent' = sent + 1
        /\ calls' = [calls EXCEPT ![p] =
                        [IdleCall EXCEPT !.op = "SendMessage", !.pc = "lock",
                                         !.session_id = session_id,
                                         !.agent_id = agent_id,
                                         !.message = MessageSeq[sent + 1]]]
        /\ lock' = enqueue(lock, p)
        /\ UNCHANGED <<sessions, agents, ctxSessions, ctxAgents, ctxHistory,
                       nextUuid, spawnedIn, stopped, last>>

\* send_message, from the read guard to the store call: manager.send_message
\* has no await that suspends; its error ends the handler
SendMessageDispatch ==
    \E p \in Senders :
        /\ calls[p].op = "SendMessage"
        /\ calls[p].pc = "lock"
        /\ CanAcquire(lock, p, "read")
        /\ LET c == calls[p]
               kind == verify_session_and_agent(c.session_id, c.agent_id) IN
           IF kind # "Ok"
           THEN /\ last' = [Request("SendMessage", c.session_id, c.agent_id) EXCEPT
                               !.code = status_internal(kind)]
                /\ lock' = release(acquire(lock, p, "read"), p)
                /\ calls' = [calls EXCEPT ![p] = IdleCall]
           ELSE /\ lock' = acquire(lock, p, "read")
                /\ calls' = [calls EXCEPT ![p].pc = "store"]
                /\ last' = last
        /\ UNCHANGED <<sessions, agents, ctxSessions, ctxAgents, ctxHistory,
                       nextUuid, spawnedIn, stopped, sent>>

\* send_message, from the completion of add_conversation_entry to the return
SendMessageReturn ==
    \E p \in Senders :
        /\ calls[p].op = "SendMessage"
        /\ calls[p].pc = "store"
        /\ LET c == calls[p] IN
           /\ ctxHistory' = add_conversation_entry(
                                ctxHistory, c.agent_id, c.message,
                                format_response(c.message), <<>>)
           /\ last' = [Request("SendMessage", c.session_id, c.agent_id) EXCEPT
                          !.message_id = new_message_id,
                          !.response = format_response(c.message),
                          !.suggestions = sample_suggestions]
        /\ lock' = release(lock, p)
        /\ calls' = [calls EXCEPT ![p] = IdleCall]
        /\ UNCHANGED <<sessions, agents, ctxSessions, ctxAgents, nextUuid,
                       spawnedIn, stopped, sent>>

\* spawn_sub_agent, up to self.manager.write()
SpawnSubAgentBegin ==
    \E p \in Spawners, session_id \in ReqIds, agent_type \in AgentTypeInputs :
        /\ calls[p].pc = "idle"
        /\ (create_agent_context_kind(session_id) = "Ok") => (nextUuid <= MaxUuid)
        /\ calls' = [calls EXCEPT ![p] =
                        [IdleCall EXCEPT !.op = "SpawnSubAgent", !.pc = "lock",
                                         !.session_id = session_id,
                                         !.agent_type = agent_type]]
        /\ lock' = enqueue(lock, p)
        /\ UNCHANGED <<sessions, agents, ctxSessions, ctxAgents, ctxHistory,
                       nextUuid, spawnedIn, stopped, last, sent>>

\* spawn_sub_agent, from the write guard to the store call
SpawnSubAgentLocked ==
    \E p \in Spawners :
        /\ calls[p].op = "SpawnSubAgent"
        /\ calls[p].pc = "lock"
        /\ CanAcquire(lock, p, "write")
        /\ lock' = acquire(lock, p, "write")
        /\ calls' = [calls EXCEPT ![p].pc = "store"]
        /\ UNCHANGED <<sessions, agents, ctxSessions, ctxAgents, ctxHistory,
                       nextUuid, spawnedIn, stopped, last, sent>>

\* spawn_sub_agent, from the completion of create_agent_context to the return
SpawnSubAgentReturn ==
    \E p \in Spawners :
        /\ calls[p].op = "SpawnSubAgent"
        /\ calls[p].pc = "store"
        /\ LET c == calls[p]
               agent_type_s == agent_type_str(c.agent_type)
               kind == create_agent_context_kind(c.session_id) IN
           IF kind # "Ok"
           THEN /\ last' = [Request("SpawnSubAgent", c.session_id, 0) EXCEPT
                               !.code = status_internal(kind),
                               !.agent_type = agent_type_s]
                /\ UNCHANGED <<ctxAgents, nextUuid>>
           ELSE /\ nextUuid <= MaxUuid
                /\ \E status \in InitialAgentStatuses :
                       ctxAgents' = Insert(ctxAgents, nextUuid,
                                           new_agent_context(c.session_id,
                                                             agent_type_s, status))
                /\ last' = [Request("SpawnSubAgent", c.session_id, 0) EXCEPT
                               !.ret_agent = {nextUuid}, !.status = "running",
                               !.agent_type = agent_type_s]
                /\ nextUuid' = nextUuid + 1
        /\ lock' = release(lock, p)
        /\ calls' = [calls EXCEPT ![p] = IdleCall]
        /\ UNCHANGED <<sessions, agents, ctxSessions, ctxHistory, spawnedIn,
                       stopped, sent>>

\* spawn_sub_agent, up to self.manager.write(), of a caller whose requests
\* count among the submitted ones
SpawnSubAgentSubmit ==
    \E p \in Spawners, session_id \in ReqIds, agent_type \in AgentTypeInputs :
        /\ calls[p].pc = "idle"
        /\ sent < MaxSends
        /\ sent' = sent + 1
        /\ (create_agent_context_kind(session_id) = "Ok") => (nextUuid <= MaxUuid)
        /\ calls' = [calls EXCEPT ![p] =
                        [IdleCall EXCEPT !.op = "SpawnSubAgent", !.pc = "lock",
                                         !.session_id = session_id,
                                         !.agent_type = agent_type]]
        /\ lock' = enqueue(lock, p)
        /\ UNCHANGED <<sessions, agents, ctxSessions, ctxAgents, ctxHistory,
                       nextUuid, spawnedIn, stopped, last>>

\* get_suggestions, up to self.manager.read()
GetSuggestionsBegin ==
    \E p \in Senders, session_id \in ReqIds, agent_id \in AgentReqIds :
        /\ calls[p].pc = "idle"
        /\ sent < MaxSends
        /\ sent' = sent + 1
        /\ calls' = [calls EXCEPT ![p] =
                        [IdleCall EXCEPT !.op = "GetSuggestions", !.pc = "lock",
                                         !.session_id = session_id,
                                         !.agent_id = agent_id]]
        /\ lock' = enqueue(lock, p)
        /\ UNCHANGED <<sessions, agents, ctxSessions, ctxAgents, ctxHistory,
                       nextUuid, spawnedIn, stopped, last>>

\* get_suggestions, from the read guard to the return: manager.get_suggestions
\* has no await that suspends
GetSuggestionsReturn ==
    \E p \in Senders :
        /\ calls[p].op = "GetSuggestions"
        /\ calls[p].pc = "lock"
        /\ CanAcquire(lock, p, "read")
        /\ LET c == calls[p]
               kind == verify_session_and_agent(c.session_id, c.agent_id) IN
           IF kind # "Ok"
           THEN last' = [Request("GetSuggestions", c.session_id, c.agent_id) EXCEPT
                            !.code = status_internal(kind)]
           ELSE \E suggestion_type \in SuggestionTypeInputs :
                    last' = [Request("GetSuggestions", c.session_id, c.agent_id) EXCEPT
                                !.suggestions = contextual_suggestions(
                                    suggestion_context_type(suggestion_type))]
        /\ agents' = get_suggestions_agents(agents, calls[p].agent_id)
        /\ lock' = release(acquire(lock, p, "read"), p)
        /\ calls' = [calls EXCEPT ![p] = IdleCall]
        /\ UNCHANGED <<sessions, ctxSessions, ctxAgents, ctxHistory, nextUuid,
                       spawnedIn, stopped, sent>>

\* get_sub_agent_status, up to self.manager.read()
GetSubAgentStatusBegin ==
    \E p \in Senders, session_id \in ReqIds, agent_id \in AgentReqIds :
        /\ calls[p].pc = "idle"
        /\ sent < MaxSends
        /\ sent' = sent + 1
        /\ calls' = [calls EXCEPT ![p] =
                        [IdleCall EXCEPT !.op = "GetSubAgentStatus", !.pc = "lock",
                                         !.session_id = session_id,
                                         !.agent_id = agent_id]]
        /\ lock' = enqueue(lock, p)
        /\ UNCHANGED <<sessions, agents, ctxSessions, ctxAgents, ctxHistory,
                       nextUuid, spawnedIn, stopped, last>>

\* get_sub_agent_status, from the read guard to the store call
GetSubAgentStatusLocked ==
    \E p \in Senders :
        /\ calls[p].op = "GetSubAgentStatus"
        /\ calls[p].pc = "lock"
        /\ CanAcquire(lock, p, "read")
        /\ lock' = acquire(lock, p, "read")
        /\ calls' = [calls EXCEPT ![p].pc = "store"]
        /\ UNCHANGED <<sessions, agents, ctxSessions, ctxAgents, ctxHistory,
                       nextUuid, spawnedIn, stopped, last, sent>>

\* get_sub_agent_status, from the completion of get_agent_context to the
\* return
GetSubAgentStatusReturn ==
    \E p \in Senders :
        /\ calls[p].op = "GetSubAgentStatus"
        /\ calls[p].pc = "store"
        /\ LET c == calls[p]
               kind == get_agent_context_kind(c.agent_id) IN
           last' = IF kind # "Ok"
                   THEN [Request("GetSubAgentStatus", c.session_id, c.agent_id) EXCEPT
                            !.code = status_internal(kind)]
                   ELSE [Request("GetSubAgentStatus", c.session_id, c.agent_id) EXCEPT
                            !.ret_agent = {c.agent_id},
                            !.agent_type = "general",
                            !.agent_status = agent_status_enum(ctxAgents[c.agent_id].status)]
        /\ lock' = release(lock, p)
        /\ calls' = [calls EXCEPT ![p] = IdleCall]
        /\ UNCHANGED <<sessions, agents, ctxSessions, ctxAgents, ctxHistory,
                       nextUuid, spawnedIn, stopped, sent>>

\* --------------------------- agent/manager.rs behind the lock, check by check
\* The manager functions that resolve (session, agent) before they answer.
ResolveOps == {"send_message", "get_suggestions", "get_agent_status"}

\* A caller asks for the read guard to call one of them
ResolveBegin ==
    \E p \in Resolvers, op \in ResolveOps, session_id \in ReqIds,
       agent_id \in AgentReqIds :
        /\ calls[p].pc = "idle"
        /\ calls' = [calls EXCEPT ![p] =
                        [IdleCall EXCEPT !.op = op, !.pc = "lock",
                                         !.session_id = session_id,
                                         !.agent_id = agent_id]]
        /\ lock' = enqueue(lock, p)
        /\ UNCHANGED <<sessions, agents, ctxSessions, ctxAgents, ctxHistory,
                       nextUuid, spawnedIn, stopped, last, sent>>

\* The call ends: the guard is dropped and the caller has its answer
resolve_return(p, code) ==
    /\ last' = [Request(calls[p].op, calls[p].session_id, calls[p].agent_id)
                    EXCEPT !.code = code]
    /\ calls' = [calls EXCEPT ![p] = IdleCall]

\* verify_session_and_agent: if !self.sessions.contains_key(session_id)
ResolveSession ==
    \E p \in Resolvers :
        /\ calls[p].op \in ResolveOps
        /\ calls[p].pc = "lock"
        /\ CanAcquire(lock, p, "read")
        /\ IF calls[p].session_id \notin DOMAIN sessions
           THEN /\ resolve_return(p, "NotFound")
                /\ lock' = release(acquire(lock, p, "read"), p)
           ELSE /\ calls' = [calls EXCEPT ![p].pc = "member"]
                /\ lock' = acquire(lock, p, "read")
                /\ last' = last
        /\ UNCHANGED <<sessions, agents, ctxSessions, ctxAgents, ctxHistory,
                       nextUuid, spawnedIn, stopped, sent>>

\* verify_session_and_agent: if !session.agent_ids.contains(&agent_id)
ResolveMember ==
    \E p \in Resolvers :
        /\ calls[p].op \in ResolveOps
        /\ calls[p].pc = "member"
        /\ IF \/ calls[p].session_id \notin DOMAIN sessions
              \/ calls[p].agent_id
                    \notin Range(sessions[calls[p].session_id].agent_ids)
           THEN /\ resolve_return(p, "NotFound")
                /\ lock' = release(lock, p)
           ELSE /\ calls' = [calls EXCEPT ![p].pc = "record"]
                /\ UNCHANGED <<lock, last>>
        /\ UNCHANGED <<sessions, agents, ctxSessions, ctxAgents, ctxHistory,
                       nextUuid, spawnedIn, stopped, sent>>

\* verify_session_and_agent: if !self.agents.contains_key(agent_id), and the
\* answer of the function that called it
ResolveRecord ==
    \E p \in Resolvers :
        /\ calls[p].op \in ResolveOps
        /\ calls[p].pc = "record"
        /\ resolve_return(p, IF calls[p].agent_id \in DOMAIN agents
                             THEN "Ok" ELSE "NotFound")
        /\ lock' = release(lock, p)
        /\ UNCHANGED <<sessions, agents, ctxSessions, ctxAgents, ctxHistory,
                       nextUuid, spawnedIn, stopped, sent>>

\* A caller asks for the write guard to call spawn_agent(&mut self, ..)
RegistrySpawnBegin ==
    \E p \in Spawners, session_id \in ReqIds :
        /\ calls[p].pc = "idle"
        /\ nextUuid <= MaxUuid
        /\ calls' = [calls EXCEPT ![p] =
                        [IdleCall EXCEPT !.op = "spawn_agent", !.pc = "lock",
                                         !.session_id = session_id]]
        /\ lock' = enqueue(lock, p)
        /\ UNCHANGED <<sessions, agents, ctxSessions, ctxAgents, ctxHistory,
                       nextUuid, spawnedIn, stopped, last, sent>>

\* spawn_agent under the write guard, from the guard to its return
RegistrySpawn ==
    \E p \in Spawners, agent_type \in AgentTypeStrings :
        /\ calls[p].op = "spawn_agent"
        /\ calls[p].pc = "lock"
        /\ CanAcquire(lock, p, "write")
        /\ lock' = release(acquire(lock, p, "write"), p)
        /\ calls' = [calls EXCEPT ![p] = IdleCall]
        /\ LET session_id == calls[p].session_id IN
           IF session_id \notin DOMAIN sessions
           THEN /\ last' = [Request("spawn_agent", session_id, 0) EXCEPT
                               !.code = "NotFound", !.agent_type = agent_type]
                /\ agents' = spawn_agent_not_found(agents, nextUuid, agent_type)
                /\ UNCHANGED <<sessions, nextUuid, spawnedIn>>
           ELSE /\ sessions' = push_agent_id(sessions, session_id, nextUuid)
                /\ agents' = Insert(agents, nextUuid, new_agent_state(agent_type))
                /\ spawnedIn' = Insert(spawnedIn, nextUuid, session_id)
                /\ last' = [Request("spawn_agent", session_id, 0) EXCEPT
                               !.ret_agent = {nextUuid}, !.agent_type = agent_type]
                /\ nextUuid' = nextUuid + 1
        /\ UNCHANGED <<ctxSessions, ctxAgents, ctxHistory, stopped, sent>>

\* -------------------------------------------------------- specifications
\* AgentManager::new(), an empty ContextStore, nothing returned yet
Init ==
    /\ sessions = << >>
    /\ agents = << >>
    /\ ctxSessions = << >>
    /\ ctxAgents = << >>
    /\ ctxHistory = << >>
    /\ nextUuid = 1
    /\ spawnedIn = << >>
    /\ stopped = {}
    /\ last = NoResponse
    /\ lock = FreeLock
    /\ calls = [p \in Procs |-> IdleCall]
    /\ sent = 0

\* The server: RPC handlers only
Next ==
    \/ StartSession
    \/ SpawnSubAgent
    \/ GetSubAgentStatus
    \/ SendMessage
    \/ GetSuggestions
    \/ StopSession
    \/ StreamEvents

Spec == Init /\ [][Next]_vars

\* The manager's operations called directly on inserted sessions, interleaved
\* with the facade's stop_session
NextRegistry ==
    \/ InsertSession
    \/ spawn_agent
    \/ send_message
    \/ get_suggestions
    \/ get_agent_status
    \/ StopSession

SpecRegistry == Init /\ [][NextRegistry]_vars

\* A manager that holds one session with two agents, the way
\* test_agent_lifecycle builds its manager: the session inserted, the agents
\* spawned.
HarnessRegistry ==
    /\ sessions = (HarnessSession :> [user_id |-> "u1", agent_ids |-> <<1, 2>>])
    /\ agents = <<new_agent_state("aws"), new_agent_state("test")>>
    /\ spawnedIn = <<HarnessSession, HarnessSession>>
    /\ nextUuid = 3

\* A service built on that manager, before any request.
InitHandlers ==
    /\ HarnessRegistry
    /\ ctxSessions = << >>
    /\ ctxAgents = << >>
    /\ ctxHistory = << >>
    /\ stopped = {}
    /\ last = NoResponse
    /\ lock = FreeLock
    /\ calls = [p \in Procs |-> IdleCall]
    /\ sent = 0

\* Handlers of concurrent callers, interleaved at their awaits
NextHandlers ==
    \/ SendMessageBegin
    \/ SendMessageDispatch
    \/ SendMessageReturn
    \/ SpawnSubAgentBegin
    \/ SpawnSubAgentLocked
    \/ SpawnSubAgentReturn
    \/ StreamEvents

SpecHandlers == InitHandlers /\ [][NextHandlers]_vars

\* The runtime polls every task that can make progress; when a store call
\* completes is up to the store.
SpecHandlersFair ==
    /\ SpecHandlers
    /\ WF_vars(SendMessageDispatch)
    /\ WF_vars(SpawnSubAgentLocked)

\* The manager exactly as test_agent_lifecycle leaves it: one session, one
\* agent spawned in it.
LifecycleRegistry ==
    /\ sessions = (HarnessSession :> [user_id |-> "u1", agent_ids |-> <<1>>])
    /\ agents = <<new_agent_state("test")>>
    /\ spawnedIn = <<HarnessSession>>
    /\ nextUuid = 2

InitReads ==
    /\ LifecycleRegistry
    /\ ctxSessions = << >>
    /\ ctxAgents = << >>
    /\ ctxHistory = << >>
    /\ stopped = {}
    /\ last = NoResponse
    /\ lock = FreeLock
    /\ calls = [p \in Procs |-> IdleCall]
    /\ sent = 0

\* Sessions and agents made through the facade on top of that manager, and
\* the read accessors of the manager and of the facade
NextReads ==
    \/ StartSession
    \/ SpawnSubAgent
    \/ get_suggestions
    \/ get_agent_status
    \/ GetSuggestions
    \/ GetSubAgentStatus

SpecReads == InitReads /\ [][NextReads]_vars

\* Resolutions under the read guard, spawns under the write guard and
\* stop_session, interleaved check by check
NextResolve ==
    \/ ResolveBegin
    \/ ResolveSession
    \/ ResolveMember
    \/ ResolveRecord
    \/ RegistrySpawnBegin
    \/ RegistrySpawn
    \/ StopSession

SpecResolve == InitReads /\ [][NextResolve]_vars

\* All seven handlers of concurrent callers, interleaved at their awaits
NextAllHandlers ==
    \/ StartSession
    \/ SpawnSubAgentSubmit
    \/ SpawnSubAgentLocked
    \/ SpawnSubAgentReturn
    \/ SendMessageBegin
    \/ SendMessageDispatch
    \/ SendMessageReturn
    \/ GetSuggestionsBegin
    \/ GetSuggestionsReturn
    \/ GetSubAgentStatusBegin
    \/ GetSubAgentStatusLocked
    \/ GetSubAgentStatusReturn
    \/ StopSession
    \/ StreamEvents

SpecAllHandlers == InitReads /\ [][NextAllHandlers]_vars

\* The same handlers on the service built on the populated manager
SpecConcurrent == InitHandlers /\ [][NextAllHandlers]_vars

\* The runtime polls every task that can make progress, and every store call
\* returns in the end.
SpecConcurrentFair ==
    /\ SpecConcurrent
    /\ WF_vars(SpawnSubAgentLocked)
    /\ WF_vars(SpawnSubAgentReturn)
    /\ WF_vars(SendMessageDispatch)
    /\ WF_vars(SendMessageReturn)
    /\ WF_vars(GetSuggestionsReturn)
    /\ WF_vars(GetSubAgentStatusLocked)
    /\ WF_vars(GetSubAgentStatusReturn)

\* The RPC handlers of a service built on the populated manager
SpecService == InitHandlers /\ [][Next]_vars

\* ---------------------------------------------------------------- claims
\* What "exists" means to a caller of the facade: a session is one a
\* StartSession returned, an agent is one a SpawnSubAgent returned, and it
\* belongs to the session it was spawned in.
SessionExists(session_id) == session_id \in DOMAIN ctxSessions

AgentOf(session_id, agent_id) ==
    /\ agent_id \in DOMAIN ctxAgents
    /\ ctxAgents[agent_id].session_id = session_id

\* The same for a direct caller of the manager: the agents of a session are
\* the ids in its agent_ids.
RegistryAgentOf(session_id, agent_id) ==
    /\ session_id \in DOMAIN sessions
    /\ agent_id \in Range(sessions[session_id].agent_ids)

\* C1: in every reachable state of the registry, whatever the interleaving of
\* spawn_agent and stop_session, every id in a session's agent_ids has an
\* agent record, and every agent record is listed (once) in the agent_ids of
\* exactly the session it was spawned in.
MembershipInvariant ==
    /\ \A s \in DOMAIN sessions :
          /\ Range(sessions[s].agent_ids) \subseteq DOMAIN agents
          /\ Cardinality(Range(sessions[s].agent_ids)) = Len(sessions[s].agent_ids)
    /\ \A a \in DOMAIN agents :
          /\ a \in DOMAIN spawnedIn
          /\ spawnedIn[a] \in DOMAIN sessions
          /\ \A s \in DOMAIN sessions :
                (a \in Range(sessions[s].agent_ids)) <=> (s = spawnedIn[a])

\* Two sessions hold agents, one of them two, and that one has been stopped.
MembershipWitness ==
    \E s1 \in DOMAIN sessions, s2 \in DOMAIN sessions :
        /\ s1 # s2
        /\ Len(sessions[s1].agent_ids) >= 2
        /\ Len(sessions[s2].agent_ids) >= 1
        /\ s1 \in stopped

\* C2: a SendMessage(S, A1, m) to an agent A1 that SpawnSubAgent(S, "aws")
\* returned, in a session S that StartSession returned and nobody stopped,
\* succeeds with a non-empty response.
ScenarioASendSucceeds ==
    (/\ last.op = "SendMessage"
     /\ SessionExists(last.session_id)
     /\ last.session_id \notin stopped
     /\ AgentOf(last.session_id, last.agent_id)
     /\ ctxAgents[last.agent_id].agent_type = "aws")
    => (/\ last.code = "Ok"
        /\ last.response # <<>>)

\* C3: a SendMessage(S, A) whose session S does not exist, whose agent A does
\* not exist or whose agent A was spawned in another session returns NotFound,
\* no response, and appends no conversation entry.
SendMessageUnknownIsNotFound ==
    [][(/\ last'.op = "SendMessage"
        /\ \/ ~SessionExists(last'.session_id)
           \/ ~AgentOf(last'.session_id, last'.agent_id))
       => (/\ last'.code = "NotFound"
           /\ last'.response = <<>>
           /\ ctxHistory' = ctxHistory)]_vars

\* C4: SendMessage, GetSuggestions and GetSubAgentStatus called with (S2, A),
\* where A was spawned in a session other than S2, fail with NotFound and
\* return nothing of A.
CrossSessionNeverResolves ==
    (/\ last.op \in {"SendMessage", "GetSuggestions", "GetSubAgentStatus"}
     /\ last.agent_id \in DOMAIN ctxAgents
     /\ ctxAgents[last.agent_id].session_id # last.session_id)
    => (/\ last.code = "NotFound"
        /\ last.ret_agent = {}
        /\ last.agent_status = 0
        /\ last.capabilities = <<>>
        /\ last.response = <<>>
        /\ last.suggestions = <<>>)

\* C5: a spawn_agent / SpawnSubAgent addressed to a session that does not
\* exist, or to a session that is Stopped, fails with NotFound and returns no
\* agent id.
SpawnOnMissingOrStoppedIsNotFound ==
    (\/ /\ last.op = "SpawnSubAgent"
        /\ \/ ~SessionExists(last.session_id)
           \/ last.session_id \in stopped
     \/ /\ last.op = "spawn_agent"
        /\ \/ last.session_id \notin DOMAIN sessions
           \/ last.session_id \in stopped)
    => (/\ last.code = "NotFound"
        /\ last.ret_agent = {})

\* C6: spawning, in an existing session, an agent whose type is not one of the
\* available agent types fails with InvalidRequest and creates no agent.
UnknownTypeIsInvalidRequest ==
    [][(/\ \/ /\ last'.op = "SpawnSubAgent"
              /\ SessionExists(last'.session_id)
           \/ /\ last'.op = "spawn_agent"
              /\ last'.session_id \in DOMAIN sessions
        /\ last'.agent_type \notin list_available_agents)
       => (/\ last'.code = "InvalidRequest"
           /\ last'.ret_agent = {}
           /\ ctxAgents' = ctxAgents
           /\ agents' = agents)]_vars

\* C7: once StopSession(S) has returned, a SendMessage(S, A1) for an agent A1
\* of S (through the facade or straight to the manager) fails with
\* InvalidState or NotFound, returns no response and appends no conversation
\* entry.
SendAfterStopIsRejected ==
    [][(/\ last'.session_id \in stopped
        /\ \/ /\ last'.op = "SendMessage"
              /\ AgentOf(last'.session_id, last'.agent_id)
           \/ /\ last'.op = "send_message"
              /\ RegistryAgentOf(last'.session_id, last'.agent_id))
       => (/\ last'.code \in {"InvalidState", "NotFound"}
           /\ last'.response = <<>>
           /\ ctxHistory' = ctxHistory)]_vars

\* C8: whenever a session has been reported Stopped (a StopSession response
\* said "stopped"), every agent of that session has status Stopped.
StoppedSessionHasOnlyStoppedAgents ==
    \A s \in stopped :
        /\ \A a \in DOMAIN ctxAgents :
              ctxAgents[a].session_id = s => ctxAgents[a].status = "stopped"
        /\ \A a \in DOMAIN agents :
              spawnedIn[a] = s => agents[a].status = "stopped"

\* C9: StopSession never returns an error, whether the session is active,
\* already stopped, stopped repeatedly or was never created.
StopSessionNeverErrors ==
    last.op = "StopSession" => (last.code = "Ok" /\ last.status = "stopped")

\* A repeated StopSession on an id no StartSession ever returned, while
\* another session does exist.
StopSessionUnknownRepeated ==
    /\ last.op = "StopSession"
    /\ last.repeat
    /\ ~SessionExists(last.session_id)
    /\ DOMAIN ctxSessions # {}

\* C10: a stop_session(S) that follows an earlier stop_session(S) changes
\* nothing observable: sessions, agent sets, agent statuses and the
\* conversation history are what the first call left.
StopSessionIdempotent ==
    [][(last'.op = "StopSession" /\ last'.repeat)
       => UNCHANGED <<sessions, agents, ctxSessions, ctxAgents, ctxHistory,
                      stopped>>]_vars

\* A second StopSession on a session that was started and holds two agents.
StopSessionTwiceWithAgents ==
    /\ last.op = "StopSession"
    /\ last.repeat
    /\ SessionExists(last.session_id)
    /\ Cardinality({a \in DOMAIN ctxAgents :
                       ctxAgents[a].session_id = last.session_id}) >= 2

\* C11: whatever the interleaving of spawns on S with a stop of S, once
\* StopSession(S) has returned no spawn on S succeeds or adds an agent id to S,
\* and no agent of S is left partially registered: a listed id without a
\* record, a record that is not listed, or an agent of the stopped session
\* whose status is not Stopped.
SpawnAndStopAreAtomic ==
    [][\A s \in stopped :
          /\ (last' # last /\ last'.op \in {"spawn_agent", "SpawnSubAgent"}
                 /\ last'.session_id = s)
             => (last'.code # "Ok" /\ last'.ret_agent = {})
          /\ s \in DOMAIN sessions
             => /\ sessions'[s].agent_ids = sessions[s].agent_ids
                /\ \A a \in Range(sessions'[s].agent_ids) :
                      a \in DOMAIN agents' /\ agents'[a].status = "stopped"
          /\ \A a \in DOMAIN agents' :
                spawnedIn'[a] = s => a \in Range(sessions'[s].agent_ids)
          /\ {a \in DOMAIN ctxAgents' : ctxAgents'[a].session_id = s}
                = {a \in DOMAIN ctxAgents : ctxAgents[a].session_id = s}]_vars

\* The place of a message in the order of submission.
MessageIndex(message) ==
    CHOOSE k \in 1..Len(MessageSeq) : MessageSeq[k] = message

StreamOnStoppedEndsWithTerminalEvent ==
    (/\ last.op = "StreamEvents"
     /\ SessionExists(last.session_id)
     /\ last.session_id \in stopped)
    => (Len(last.events) >= 1 /\ last.stream_closed)

\* C18: every StreamEvents subscription terminates (at the latest when the
\* client goes away or the session stops), and no subscription or fan-out
\* state stays registered: the stream a call returns is already at its end
\* and the call leaves nothing behind in the service.
StreamsTerminateAndLeaveNothing ==
    [][(last' # last /\ last'.op = "StreamEvents")
       => (/\ last'.stream_closed
           /\ UNCHANGED <<sessions, agents, ctxSessions, ctxAgents,
                          ctxHistory, nextUuid, spawnedIn, stopped, lock,
                          calls, sent>>)]_vars

\* A stream was asked for on a session that is live and holds an agent.
StreamOnLiveSession ==
    /\ last.op = "StreamEvents"
    /\ SessionExists(last.session_id)
    /\ last.session_id \notin stopped
    /\ \E a \in DOMAIN ctxAgents : ctxAgents[a].session_id = last.session_id

\* C19: a StreamEvents consumer, however slowly it reads, never holds the
\* registry lock and never keeps a SpawnSubAgent or SendMessage of another
\* caller from completing: the call leaves the lock, its queue and every
\* pending call exactly as they were.
StreamConsumerNeverHoldsRegistry ==
    [][(last' # last /\ last'.op = "StreamEvents")
       => (lock' = lock /\ calls' = calls)]_vars

\* A stream is handed out while a SendMessage waits on the store under its
\* read guard and a SpawnSubAgent waits for the write guard.
StreamWhileCallsPending ==
    /\ last.op = "StreamEvents"
    /\ \E p \in Senders : calls[p].pc = "store" /\ p \in lock.readers
    /\ \E q \in Spawners : calls[q].pc = "lock"

SpawnedAgentIsUsable ==
    /\ (last.op = "spawn_agent" /\ last.session_id \in DOMAIN sessions)
       => (/\ last.code = "Ok"
           /\ Cardinality(last.ret_agent) = 1
           /\ \A a \in last.ret_agent :
                 /\ RegistryAgentOf(last.session_id, a)
                 /\ verify_session_and_agent(last.session_id, a) = "Ok"
                 /\ agents[a].agent_type = last.agent_type)
    /\ (last.op = "get_agent_status"
          /\ RegistryAgentOf(last.session_id, last.agent_id))
       => (/\ last.code = "Ok"
           /\ last.status = "running"
           /\ last.capabilities # <<>>)
    /\ (last.op = "send_message"
          /\ RegistryAgentOf(last.session_id, last.agent_id))
       => (/\ last.code = "Ok"
           /\ last.message_id # ""
           /\ last.response # <<>>
           /\ last.suggestions # <<>>)
    /\ (last.op = "get_suggestions"
          /\ RegistryAgentOf(last.session_id, last.agent_id))
       => (/\ last.code = "Ok"
           /\ last.suggestions # <<>>)

\* A message was sent to an agent of a type that is not among the available
\* ones, spawned second in its session.
SendToSpawnedTestAgent ==
    /\ last.op = "send_message"
    /\ last.code = "Ok"
    /\ RegistryAgentOf(last.session_id, last.agent_id)
    /\ agents[last.agent_id].agent_type = "test"
    /\ Len(sessions[last.session_id].agent_ids) >= 2

\* C23: a spawn_agent, send_message, get_suggestions or get_agent_status that
\* returns NotFound, InvalidRequest or InvalidState leaves the registry as it
\* was: the sessions, every session's agent ids, the agent records and every
\* agent's status.
FailedRegistryOpChangesNothing ==
    [][(/\ last' # last
        /\ last'.op \in {"spawn_agent", "send_message", "get_suggestions",
                          "get_agent_status"}
        /\ last'.code \in {"NotFound", "InvalidRequest", "InvalidState"})
       => UNCHANGED <<sessions, agents, spawnedIn>>]_vars

\* A spawn_agent on a session that is not in the registry returned NotFound
\* while the registry holds a session with an agent.
SpawnNotFoundBesideAgents ==
    /\ last.op = "spawn_agent"
    /\ last.code = "NotFound"
    /\ last.session_id \notin DOMAIN sessions
    /\ DOMAIN agents # {}

\* C24: get_suggestions and get_agent_status, called on the manager or
\* through the facade, are read-only: whether they succeed or fail they
\* change no session, no agent set, no agent record and no agent status
\* (get_suggestions never makes the agent Busy) and append no conversation
\* entry.
ReadsChangeNothing ==
    [][(/\ last' # last
        /\ last'.op \in {"get_suggestions", "get_agent_status",
                          "GetSuggestions", "GetSubAgentStatus"})
       => UNCHANGED <<sessions, agents, spawnedIn, ctxSessions, ctxAgents,
                      ctxHistory, stopped>>]_vars

\* The facade returned suggestions for an agent of the manager while the
\* store holds an agent context as well.
SuggestionsReturnedBesideContexts ==
    /\ last.op = "GetSuggestions"
    /\ last.code = "Ok"
    /\ last.suggestions # <<>>
    /\ DOMAIN ctxAgents # {}

ResolutionIsAtomic ==
    [][\A p \in Resolvers :
          /\ (calls[p].op \in ResolveOps /\ calls[p].pc \in {"member", "record"})
             => (sessions' = sessions /\ agents' = agents)
          /\ (/\ calls[p].op \in ResolveOps
              /\ calls[p].pc # "idle"
              /\ calls'[p].pc = "idle")
             => last'.code = verify_session_and_agent(calls[p].session_id,
                                                      calls[p].agent_id)]_vars

\* A resolution is between its membership check and its record lookup while
\* a spawn_agent on the same session waits for the write guard and the
\* session has been stopped.
ResolutionMidwayWriterWaiting ==
    \E p \in Resolvers, q \in Spawners :
        /\ calls[p].pc = "record"
        /\ calls[q].op = "spawn_agent"
        /\ calls[q].pc = "lock"
        /\ calls[q].session_id = calls[p].session_id
        /\ calls[p].session_id \in stopped

\* C27: a SpawnSubAgent on session S1 that is suspended in its store call
\* keeps no SendMessage, GetSuggestions or GetSubAgentStatus addressed to
\* another session S2 from going ahead: such a request, first in the queue of
\* the registry lock, is granted the lock.
SpawnExcludesOnlyItsSession ==
    \A q \in Spawners, p \in Senders :
        (/\ calls[q].op = "SpawnSubAgent" /\ calls[q].pc = "store"
         /\ SessionExists(calls[q].session_id)
         /\ calls[p].op \in {"SendMessage", "GetSuggestions", "GetSubAgentStatus"}
         /\ calls[p].pc = "lock"
         /\ calls[p].session_id \in (DOMAIN sessions) \cup (DOMAIN ctxSessions)
         /\ calls[p].session_id # calls[q].session_id
         /\ Head(lock.queue) = p)
        => CanAcquire(lock, p, LockMode(calls[p].op))

LockDiscipline ==
    /\ \A p \in Procs :
          (calls[p].pc = "idle") =>
              /\ p \notin lock.readers \cup lock.writer
              /\ p \notin Range(lock.queue)
    /\ Cardinality(lock.writer) <= 1
    /\ (lock.writer # {}) => (lock.readers = {})

\* C30: when every context-store call returns in the end, no interleaving of
\* the seven handlers deadlocks: a handler takes nothing but the one registry
\* lock, has given it back on every way out (error returns included), and every
\* handler that waits for the lock gets it in the end and returns.
HandlersNeverDeadlock ==
    /\ []LockDiscipline
    /\ \A p \in Procs : (calls[p].pc # "idle") ~> (calls[p].pc = "idle")

\* A writer waits in the queue while a reader holds the lock across its store
\* call.
WriterQueuedBehindReader ==
    \E r \in Senders, w \in Spawners :
        /\ r \in lock.readers
        /\ calls[r].pc = "store"
        /\ calls[w].pc = "lock"
        /\ lock.queue = <<w>>

====
